---- MODULE Spec2Model ----
(***************************************************************************)
(* v2x (src/src/main.rs): one SVG document is rendered once per requested  *)
(* raster format, the formats running as tasks of a rayon parallel         *)
(* iterator.  The module models main's sequential prefix, the fan-out and  *)
(* the pure helpers parse_color, pixmap_to_rgb_buffer, the format          *)
(* de-duplication and the dimension resolver.                              *)
(***************************************************************************)
EXTENDS Integers, Sequences, FiniteSets, TLC

VARIABLES
    pc,          \* position of main, or the phase of a helper's call
    config,      \* Config, as Config::parse() returned it
    env,         \* what main has learnt of the file system and the document
    formats,     \* let formats     (main.rs:186)
    output,      \* let output      (main.rs:203)
    background,  \* let background  (main.rs:214)
    filename,    \* let filename    (main.rs:220)
    width,       \* let (width, _)  (main.rs:258)
    height,      \* let (_, height) (main.rs:258)
    threads,     \* size of the rayon pool that runs par_iter
    task,        \* one record per element of formats.par_iter()
    files,       \* image files written by image::save_buffer
    exit,        \* how the process ended
    arg,         \* argument of the helper under call
    ret          \* value the helper returned

vars == <<pc, config, env, formats, output, background, filename, width, height,
          threads, task, files, exit, arg, ret>>

mainVars == <<config, env, formats, output, background, filename, width, height,
              threads, task, files, exit>>

(***************************************************************************)
(* Option<T>: None is the empty tuple, Some(x) the one-element tuple.      *)
(***************************************************************************)
None == <<>>
Some(x) == <<x>>
IsSome(o) == Len(o) = 1
Unwrap(o) == o[1]

(***************************************************************************)
(* f32 arithmetic (IEEE-754 binary32, round to nearest, ties to even).     *)
(* A finite non-negative f32 is <<m, e>> with value m * 2^e and            *)
(* 2^23 <= m < 2^24, or F32Zero.  Integers below 2^24 convert exactly, so  *)
(* the operators take them as integers.                                    *)
(***************************************************************************)
MantBits == 23
F32Zero == <<0, 0>>

RECURSIVE Pow2(_)
Pow2(n) == IF n = 0 THEN 1 ELSE 2 * Pow2(n - 1)

\* n/d = (N/D) * 2^k with D <= N < 2D
RECURSIVE Norm(_, _, _)
Norm(n, d, k) ==
    IF n < d THEN Norm(2 * n, d, k - 1)
    ELSE IF n >= 2 * d THEN Norm(n, 2 * d, k + 1)
    ELSE <<n, d, k>>

\* binary long division: `bits` further quotient bits of (q + r/d)
RECURSIVE LongDiv(_, _, _, _)
LongDiv(q, r, d, bits) ==
    IF bits = 0 THEN <<q, r>>
    ELSE IF 2 * r >= d THEN LongDiv(2 * q + 1, 2 * r - d, d, bits - 1)
    ELSE LongDiv(2 * q, 2 * r, d, bits - 1)

RoundEven(q, r, d) ==
    IF 2 * r > d \/ (2 * r = d /\ q % 2 = 1) THEN q + 1 ELSE q

\* the f32 nearest to n/d, for integers n >= 0, d > 0
DivII(n, d) ==
    IF n = 0 THEN F32Zero
    ELSE LET nm == Norm(n, d, 0)
             qr == LongDiv(1, nm[1] - nm[2], nm[2], MantBits)
             q  == RoundEven(qr[1], qr[2], nm[2])
         IN  IF q = Pow2(MantBits + 1)
             THEN <<Pow2(MantBits), nm[3] - MantBits + 1>>
             ELSE <<q, nm[3] - MantBits>>

\* integer / f32  and  integer * f32, each rounded once
DivIF(n, y) ==
    LET z == DivII(n, y[1]) IN IF n = 0 THEN F32Zero ELSE <<z[1], z[2] - y[2]>>

MulIF(n, y) ==
    LET z == DivII(n * y[1], 1)
    IN  IF n = 0 \/ y = F32Zero THEN F32Zero ELSE <<z[1], z[2] + y[2]>>

\* `x as u32` / `x as u8` before saturation: truncation toward zero
Trunc(x) ==
    IF x[2] >= 0 THEN x[1] * Pow2(x[2])
    ELSE IF -x[2] > MantBits + 1 THEN 0
    ELSE x[1] \div Pow2(-x[2])

\* f32::round: to nearest, ties away from zero
Round(x) ==
    IF x[2] >= 0 THEN x[1] * Pow2(x[2])
    ELSE IF -x[2] > MantBits + 1 THEN 0
    ELSE LET p == Pow2(-x[2])
         IN  (x[1] \div p) + (IF 2 * (x[1] % p) >= p THEN 1 ELSE 0)

(***************************************************************************)
(* Dimension resolver, main.rs:258-285.  w and h are config.width and      *)
(* config.height (Option<u32>), scale is config.scale (f32).               *)
(***************************************************************************)
ResolveWidthTrunc(bw, bh, w, h) ==
    IF IsSome(w) THEN Unwrap(w)
    ELSE IF IsSome(h) THEN Trunc(MulIF(bw, DivII(Unwrap(h), bh)))
    ELSE bw

ResolveHeightTrunc(bw, bh, w, h) ==
    IF IsSome(h) THEN Unwrap(h)
    ELSE IF IsSome(w) THEN Trunc(MulIF(bh, DivII(Unwrap(w), bw)))
    ELSE bh

ResolveDimensions(bw, bh, w, h, scale) ==
    IF IsSome(w) \/ IsSome(h)
    THEN <<ResolveWidthTrunc(bw, bh, w, h), ResolveHeightTrunc(bw, bh, w, h)>>
    ELSE <<Round(MulIF(bw, scale)), Round(MulIF(bh, scale))>>

\* inputs of the resolver
MaxDim == 13
OptDim == {None} \cup {Some(n) : n \in 0..MaxDim}
Scales == {F32Zero, DivII(1, 10), DivII(1, 2), DivII(1, 1), DivII(2, 1)}

MainUnused ==
    /\ config = None /\ env = None /\ formats = <<>> /\ output = None /\ background = None
    /\ filename = None /\ width = 0 /\ height = 0 /\ threads = 0
    /\ task = <<>> /\ files = {} /\ exit = "running"

DimInit ==
    /\ pc = "call"
    /\ arg \in [base_width : 1..MaxDim, base_height : 1..MaxDim,
                width : OptDim, height : OptDim, scale : Scales]
    /\ ret = None
    /\ MainUnused

DimResolve ==
    /\ pc = "call"
    /\ ret' = Some(ResolveDimensions(arg.base_width, arg.base_height,
                                     arg.width, arg.height, arg.scale))
    /\ pc' = "return"
    /\ UNCHANGED <<arg, mainVars>>

DimNext == DimResolve
SpecDim == DimInit /\ [][DimNext]_vars

(* C6: with exactly one of --width/--height given as g and a positive
   intrinsic size, the given axis is g and the other axis is
   g * intrinsic_missing / intrinsic_given truncated toward zero, whatever
   --scale is. *)
C6_SingleAxisExact ==
    pc = "return" =>
        LET bw == arg.base_width
            bh == arg.base_height
        IN  /\ (IsSome(arg.width) /\ ~IsSome(arg.height)) =>
                 Unwrap(ret) = <<Unwrap(arg.width), (Unwrap(arg.width) * bh) \div bw>>
            /\ (IsSome(arg.height) /\ ~IsSome(arg.width)) =>
                 Unwrap(ret) = <<(Unwrap(arg.height) * bw) \div bh, Unwrap(arg.height)>>

(***************************************************************************)
(* Strings.  A &str is a sequence of chars; a char of the alphabet below   *)
(* takes one byte in UTF-8 except NonAscii (U+00E9), which takes two.      *)
(* str::len and                                                            *)
(* the range index &s[a..b] count bytes.                                   *)
(***************************************************************************)
NonAscii == "e-acute"
Utf8Len(c) == IF c = NonAscii THEN 2 ELSE 1

RECURSIVE ByteLen(_)
ByteLen(s) == IF s = <<>> THEN 0 ELSE Utf8Len(Head(s)) + ByteLen(Tail(s))

\* byte offset at which char i of s starts (i = Len(s)+1: the end of s)
CharStart(s, i) == ByteLen(SubSeq(s, 1, i - 1))

IsCharBoundary(s, b) == \E i \in 1..(Len(s) + 1) : CharStart(s, i) = b

\* &s[a..b]: the chars lying in bytes a..b, or a panic off a char boundary
Slice(s, a, b) ==
    IF IsCharBoundary(s, a) /\ IsCharBoundary(s, b)
    THEN [panic |-> FALSE,
          str |-> LET first == CHOOSE i \in 1..(Len(s) + 1) : CharStart(s, i) = a
                      last  == CHOOSE i \in 1..(Len(s) + 1) : CharStart(s, i) = b
                  IN  SubSeq(s, first, last - 1)]
    ELSE [panic |-> TRUE, str |-> <<>>]

\* str::trim_start_matches('#')
RECURSIVE trim_start_matches(_, _)
trim_start_matches(s, c) ==
    IF s # <<>> /\ Head(s) = c THEN trim_start_matches(Tail(s), c) ELSE s

HexChars == <<"0", "1", "2", "3", "4", "5", "6", "7", "8", "9",
              "a", "b", "c", "d", "e", "f">>
UpperHex == <<"A", "B", "C", "D", "E", "F">>

\* char::to_digit(16): None is -1
to_digit(c) ==
    IF \E i \in 1..Len(HexChars) : HexChars[i] = c
    THEN (CHOOSE i \in 1..Len(HexChars) : HexChars[i] = c) - 1
    ELSE IF \E i \in 1..Len(UpperHex) : UpperHex[i] = c
    THEN (CHOOSE i \in 1..Len(UpperHex) : UpperHex[i] = c) + 9
    ELSE -1

RECURSIVE DigitsValue(_, _)
DigitsValue(ds, acc) ==
    IF ds = <<>> THEN acc ELSE DigitsValue(Tail(ds), 16 * acc + to_digit(Head(ds)))

\* u8::from_str_radix(src, 16) on a non-empty src: one leading '+' is a sign,
\* '-' is no sign for an unsigned type, a lone sign is an error.  Err is -1.
from_str_radix(src) ==
    LET digits == IF Head(src) = "+" THEN Tail(src) ELSE src
    IN  IF Len(src) = 1 /\ Head(src) \in {"+", "-"} THEN -1
        ELSE IF \E i \in 1..Len(digits) : to_digit(digits[i]) = -1 THEN -1
        ELSE DigitsValue(digits, 0)

ColorOk(r, g, b, a) == [kind |-> "Ok", color |-> <<r, g, b, a>>]
ColorErr == [kind |-> "Err", color |-> <<>>]
ColorPanic == [kind |-> "Panic", color |-> <<>>]

\* the channels of parse_color, read left to right; each `?` returns early
RECURSIVE ParseChannels(_, _, _, _)
ParseChannels(s, n, k, acc) ==
    IF k = n THEN [kind |-> "Ok", color |-> acc]
    ELSE LET sl == Slice(s, 2 * k, 2 * k + 2)
         IN  IF sl.panic THEN ColorPanic
             ELSE IF from_str_radix(sl.str) = -1 THEN ColorErr
             ELSE ParseChannels(s, n, k + 1, Append(acc, from_str_radix(sl.str)))

OpaqueAlpha == 255

parse_color(str) ==
    LET s == trim_start_matches(str, "#")
    IN  IF ByteLen(s) = 6
        THEN LET rgb == ParseChannels(s, 3, 0, <<>>)
             IN  IF rgb.kind = "Ok"
                 THEN ColorOk(rgb.color[1], rgb.color[2], rgb.color[3], OpaqueAlpha)
                 ELSE rgb
        ELSE IF ByteLen(s) = 8 THEN ParseChannels(s, 4, 0, <<>>)
        ELSE ColorErr

\* inputs of parse_color
MaxColorLen == 9
ColorAlphabet == {"#", "f", "+", NonAscii}
ColorStrings == UNION {[1..n -> ColorAlphabet] : n \in 0..MaxColorLen}

ColorInit ==
    /\ pc = "call"
    /\ arg \in ColorStrings
    /\ ret = None
    /\ MainUnused

ColorParse ==
    /\ pc = "call"
    /\ ret' = Some(parse_color(arg))
    /\ pc' = "return"
    /\ UNCHANGED <<arg, mainVars>>

ColorNext == ColorParse
SpecColor == ColorInit /\ [][ColorNext]_vars

IsHexString(s) == \A i \in 1..Len(s) : to_digit(s[i]) # -1
StripOneHash(s) == IF s # <<>> /\ Head(s) = "#" THEN Tail(s) ELSE s

(* C3: with one optional leading '#' removed, parse_color returns a Color
   exactly when the remainder is 6 or 8 hexadecimal digits (alpha 255 for
   6), returns an error otherwise, and never panics. *)
C3_ColorRejection ==
    pc = "return" =>
        LET rem == StripOneHash(arg)
            r   == Unwrap(ret)
        IN  /\ r.kind # "Panic"
            /\ r.kind = "Ok" <=> (Len(rem) \in {6, 8} /\ IsHexString(rem))
            /\ (r.kind = "Ok" /\ Len(rem) = 6) => r.color[4] = 255

(***************************************************************************)
(* pixmap_to_rgb_buffer, main.rs:147-176.  buf is pixmap.data(): four      *)
(* bytes per pixel, premultiplied RGBA.                                    *)
(***************************************************************************)
U8Max == 255

\* one channel of one pixel, main.rs:159-172
Unpremultiply(c, a) ==
    LET alpha == DivII(a, U8Max)
    IN  IF a > 0
        THEN LET v == Trunc(DivIF(c, alpha)) IN IF v > U8Max THEN U8Max ELSE v
        ELSE 0

RECURSIVE pixmap_to_rgb_buffer(_)
pixmap_to_rgb_buffer(buf) ==
    IF Len(buf) < 4 THEN <<>>
    ELSE <<Unpremultiply(buf[1], buf[4]), Unpremultiply(buf[2], buf[4]),
           Unpremultiply(buf[3], buf[4])>>
         \o pixmap_to_rgb_buffer(SubSeq(buf, 5, Len(buf)))

\* inputs of the converter
MaxPixels == 2
ChannelValues == {0, 1, 3, 255}
AlphaValues == {0, 1, 9, 255}
Pixels == {<<r, g, b, a>> : r \in ChannelValues, g \in ChannelValues,
                            b \in ChannelValues, a \in AlphaValues}

RECURSIVE Flatten(_)
Flatten(ps) == IF ps = <<>> THEN <<>> ELSE Head(ps) \o Flatten(Tail(ps))

PixelInit ==
    /\ pc = "call"
    /\ \E n \in 0..MaxPixels : \E ps \in [1..n -> Pixels] : arg = Flatten(ps)
    /\ ret = None
    /\ MainUnused

PixelConvert ==
    /\ pc = "call"
    /\ ret' = Some(pixmap_to_rgb_buffer(arg))
    /\ pc' = "return"
    /\ UNCHANGED <<arg, mainVars>>

PixelNext == PixelConvert
SpecPixel == PixelInit /\ [][PixelNext]_vars

ExactChannel(c, a) ==
    IF a = 255 THEN c
    ELSE IF a = 0 THEN 0
    ELSE IF (c * 255) \div a > 255 THEN 255 ELSE (c * 255) \div a

(* C9: pixmap_to_rgb_buffer returns three bytes per input pixel, in pixel
   order: the channels unchanged for alpha 255, zero for alpha 0, and
   otherwise channel*255/alpha truncated and clamped to 255. *)
C9_AlphaRemoval ==
    pc = "return" =>
        LET out == Unwrap(ret)
            n   == Len(arg) \div 4
        IN  /\ Len(out) = 3 * n
            /\ \A p \in 1..n : \A k \in 1..3 :
                   out[3 * (p - 1) + k] =
                       ExactChannel(arg[4 * (p - 1) + k], arg[4 * p])

(***************************************************************************)
(* Format, main.rs:13-40, and the --format de-duplication, main.rs:196-200 *)
(***************************************************************************)
Format == {"Avif", "Jpeg", "Png", "Tiff", "Webp"}

extension(f) ==
    CASE f = "Avif" -> "avif"
      [] f = "Jpeg" -> "jpeg"
      [] f = "Png"  -> "png"
      [] f = "Tiff" -> "tiff"
      [] f = "Webp" -> "webp"

\* a registry that reports an alpha channel for every format
has_alpha_channel_all(f) == f \in Format

has_alpha_channel(f) == f \in {"Avif", "Png", "Tiff", "Webp"}

\* the list main builds when --format is absent
DefaultFormats == <<"Avif", "Jpeg", "Png", "Tiff", "Webp">>

\* a retain whose predicate keeps every element
RetainKeepAll(v, seen) == v

\* v.retain(|e| seen.insert(e.clone())): HashSet::insert is true for a new element
RECURSIVE Retain(_, _)
Retain(v, seen) ==
    IF v = <<>> THEN <<>>
    ELSE IF Head(v) \in seen THEN Retain(Tail(v), seen)
    ELSE <<Head(v)>> \o Retain(Tail(v), seen \cup {Head(v)})

ResolveFormats(format) ==
    IF IsSome(format) THEN Retain(Unwrap(format), {}) ELSE DefaultFormats

\* inputs of the de-duplication
MaxFormatArgs == 4
FormatArgs == UNION {[1..n -> Format] : n \in 1..MaxFormatArgs}

DedupInit ==
    /\ pc = "call"
    /\ arg \in FormatArgs
    /\ ret = None
    /\ MainUnused

DedupApply ==
    /\ pc = "call"
    /\ ret' = Some(ResolveFormats(Some(arg)))
    /\ pc' = "return"
    /\ UNCHANGED <<arg, mainVars>>

DedupNext == DedupApply
SpecDedup == DedupInit /\ [][DedupNext]_vars

FirstIndex(v, x) == CHOOSE i \in 1..Len(v) : v[i] = x /\ \A j \in 1..(i - 1) : v[j] # x
Range(v) == {v[i] : i \in 1..Len(v)}

(* C7: the task list is the requested sequence with every later duplicate
   dropped: each requested format exactly once, nothing unrequested, in the
   order of first occurrence. *)
C7_Dedup ==
    pc = "return" =>
        LET out == Unwrap(ret)
        IN  /\ Range(out) = Range(arg)
            /\ \A i, j \in 1..Len(out) : i # j => out[i] # out[j]
            /\ \A i, j \in 1..Len(out) :
                   i < j => FirstIndex(arg, out[i]) < FirstIndex(arg, out[j])

C7_Witness ==
    /\ pc = "return"
    /\ arg = <<"Avif", "Jpeg", "Avif", "Png">>
    /\ Unwrap(ret) = <<"Avif", "Jpeg", "Png">>

(***************************************************************************)
(* Paths.  A file name is a sequence of chars, a PathBuf a sequence of     *)
(* names; the name ".." is the parent-directory component.                 *)
(***************************************************************************)
DotDot == <<".", ".">>
Svg == <<"s", "v", "g">>

Last(p) == p[Len(p)]

\* Path::file_name: None if the path terminates in `..`
file_name(p) == IF p # <<>> /\ Last(p) # DotDot THEN Some(Last(p)) ELSE None

\* position of the dot that splits stem and extension, 0 if there is none
\* (a dot that begins the name splits nothing)
SplitDot(name) ==
    LET dots == {i \in 2..Len(name) : name[i] = "."}
    IN  IF dots = {} THEN 0 ELSE CHOOSE i \in dots : \A j \in dots : j <= i

\* Path::file_stem and Path::extension
file_stem(p) ==
    IF file_name(p) = None THEN None
    ELSE IF SplitDot(Last(p)) = 0 THEN Some(Last(p))
    ELSE Some(SubSeq(Last(p), 1, SplitDot(Last(p)) - 1))

path_extension(p) ==
    IF file_name(p) = None \/ SplitDot(Last(p)) = 0 THEN None
    ELSE Some(SubSeq(Last(p), SplitDot(Last(p)) + 1, Len(Last(p))))

\* PathBuf::push of a relative one-component name
push(p, name) == Append(p, name)

\* PathBuf::set_extension: does nothing if file_name is None
set_extension(p, ext) ==
    IF file_name(p) = None THEN p
    ELSE [p EXCEPT ![Len(p)] = Unwrap(file_stem(p)) \o <<".">> \o ext]

\* Format::extension as chars
ExtensionChars(f) ==
    CASE extension(f) = "avif" -> <<"a", "v", "i", "f">>
      [] extension(f) = "jpeg" -> <<"j", "p", "e", "g">>
      [] extension(f) = "png"  -> <<"p", "n", "g">>
      [] extension(f) = "tiff" -> <<"t", "i", "f", "f">>
      [] extension(f) = "webp" -> <<"w", "e", "b", "p">>

\* a validation that looks at the extension alone
is_svg_file_ext_only(path, is_file) == path_extension(path) = Some(Svg)

\* main.rs:113-120; is_file is what Path::is_file answers for the path
is_svg_file(path, is_file) ==
    LET is_valid_ext == path_extension(path) = Some(Svg)
    IN  is_file /\ is_valid_ext

\* main.rs:301-307
OutputPath(out, name, f) == set_extension(push(out, name), ExtensionChars(f))

\* main.rs:312-318
Transparent == <<0, 0, 0, 0>>
White == <<255, 255, 255, 255>>

BgColor(bg, f) ==
    IF IsSome(bg) THEN Unwrap(bg)
    ELSE IF has_alpha_channel(f) THEN Transparent
    ELSE White

(***************************************************************************)
(* The command lines and documents main is run on.                         *)
(***************************************************************************)
Logo == <<"l", "o", "g", "o">>
Stdin == [kind |-> "Stdin", path |-> <<>>, is_file |-> FALSE]
InputPath(p, f) == [kind |-> "Path", path |-> p, is_file |-> f]

Inputs == {Stdin,
           InputPath(<<Logo \o <<".">> \o Svg>>, TRUE),
           InputPath(<<Logo \o <<".">> \o Svg>>, FALSE),
           InputPath(<<Logo \o <<".", "p", "n", "g">>>>, TRUE)}
Filenames == {None, Some(Logo), Some(DotDot)}
Outputs == {None, Some(<<<<"o", "u", "t">>>>)}
Backgrounds == {None,
                Some(<<"#", "0", "0", "f", "f", "8", "0">>),
                Some(<<"f", "f">>),
                Some(<<"f", NonAscii, "f", "f", "f">>)}
FormatLists == {None, Some(<<"Png">>), Some(<<"Jpeg", "Png">>),
                Some(<<"Png", "Jpeg", "Png">>)}
Geometries == {[width |-> None, height |-> None, scale |-> DivII(1, 1)],
               [width |-> None, height |-> None, scale |-> DivII(1, 10)],
               [width |-> Some(1), height |-> None, scale |-> DivII(1, 1)],
               [width |-> Some(0), height |-> Some(3), scale |-> DivII(1, 1)]}
BaseSizes == {<<4, 2>>}
CurrentDir == <<<<"c", "w", "d">>>>
MaxThreads == 2

Configs ==
    {[input |-> i, output |-> o, filename |-> n, format |-> f,
      width |-> g.width, height |-> g.height, scale |-> g.scale,
      background |-> b] :
        i \in Inputs, o \in Outputs, n \in Filenames, f \in FormatLists,
        g \in Geometries, b \in Backgrounds}

\* state when Config::parse() has returned, main.rs:185
Init ==
    /\ pc = "formats"
    /\ config \in Configs
    /\ env = [out_dir |-> "unknown", data |-> "unknown", tree |-> "unknown",
              size |-> <<0, 0>>]
    /\ formats = <<>> /\ output = None /\ background = None /\ filename = None
    /\ width = 0 /\ height = 0 /\ threads = 0
    /\ task = <<>> /\ files = {} /\ exit = "running"
    /\ arg = None /\ ret = None

\* `?`, bail! or a panic of main's own thread
Bail(code) == pc' = "exit" /\ exit' = code

\* main.rs:186-201
MainFormats ==
    /\ pc = "formats"
    /\ formats' = ResolveFormats(config.format)
    /\ pc' = "output"
    /\ UNCHANGED <<config, env, output, background, filename, width, height,
                   threads, task, files, exit, arg, ret>>

\* main.rs:203-212: current_dir(), or the directory given, created if absent
MainOutput ==
    /\ pc = "output"
    /\ \E r \in {"ok", "fail"} :
        /\ env' = [env EXCEPT !.out_dir = r]
        /\ IF r = "ok"
           THEN /\ output' = IF IsSome(config.output) THEN Unwrap(config.output)
                             ELSE CurrentDir
                /\ pc' = "background"
                /\ UNCHANGED exit
           ELSE Bail("Err") /\ UNCHANGED output
    /\ UNCHANGED <<config, formats, background, filename, width, height,
                   threads, task, files, arg, ret>>

\* main.rs:214-218
MainBackground ==
    /\ pc = "background"
    /\ IF IsSome(config.background)
       THEN LET c == parse_color(Unwrap(config.background))
            IN  IF c.kind = "Ok"
                THEN /\ background' = Some(c.color)
                     /\ pc' = "filename"
                     /\ UNCHANGED exit
                ELSE Bail(c.kind) /\ UNCHANGED background
       ELSE /\ background' = None
            /\ pc' = "filename"
            /\ UNCHANGED exit
    /\ UNCHANGED <<config, env, formats, output, filename, width, height,
                   threads, task, files, arg, ret>>

\* main.rs:220-241
MainFilename ==
    /\ pc = "filename"
    /\ IF config.input.kind = "Stdin"
       THEN IF IsSome(config.filename)
            THEN /\ filename' = Unwrap(config.filename)
                 /\ pc' = "read"
                 /\ UNCHANGED exit
            ELSE Bail("Err") /\ UNCHANGED filename
       ELSE IF ~is_svg_file(config.input.path, config.input.is_file)
            THEN Bail("Err") /\ UNCHANGED filename
            ELSE /\ filename' = IF IsSome(config.filename)
                                THEN Unwrap(config.filename)
                                ELSE Unwrap(file_stem(config.input.path))
                 /\ pc' = "read"
                 /\ UNCHANGED exit
    /\ UNCHANGED <<config, env, formats, output, background, width, height,
                   threads, task, files, arg, ret>>

\* main.rs:246-251: read_from_stdin or std::fs::read
MainRead ==
    /\ pc = "read"
    /\ \E r \in {"ok", "fail"} :
        /\ env' = [env EXCEPT !.data = r]
        /\ IF r = "ok" THEN pc' = "parse" /\ UNCHANGED exit ELSE Bail("Err")
    /\ UNCHANGED <<config, formats, output, background, filename, width, height,
                   threads, task, files, arg, ret>>

\* main.rs:252-256: usvg::Tree::from_data and the tree's integer size
MainParse ==
    /\ pc = "parse"
    /\ \/ /\ \E sz \in BaseSizes : env' = [env EXCEPT !.tree = "ok", !.size = sz]
          /\ pc' = "dimensions"
          /\ UNCHANGED exit
       \/ /\ env' = [env EXCEPT !.tree = "fail"]
          /\ Bail("Err")
    /\ UNCHANGED <<config, formats, output, background, filename, width, height,
                   threads, task, files, arg, ret>>

\* main.rs:258-288
MainDimensions ==
    /\ pc = "dimensions"
    /\ LET d == ResolveDimensions(env.size[1], env.size[2], config.width,
                                  config.height, config.scale)
       IN  width' = d[1] /\ height' = d[2]
    /\ pc' = "par_iter"
    /\ UNCHANGED <<config, env, formats, output, background, filename,
                   threads, task, files, exit, arg, ret>>

NewTask(f) ==
    [format |-> f, st |-> "pending", o |-> <<>>, canvas |-> <<>>,
     res |-> "none", logged |-> <<>>]

\* main.rs:290-296: formats.par_iter().for_each on a pool of k threads
MainFanOut ==
    /\ pc = "par_iter"
    /\ \E k \in 1..MaxThreads : threads' = k
    /\ task' = [i \in 1..Len(formats) |-> NewTask(formats[i])]
    /\ pc' = "for_each"
    /\ UNCHANGED <<config, env, formats, output, background, filename, width,
                   height, files, exit, arg, ret>>

Running(i) == task[i].st \in {"filled", "rendered", "encoded"}
Finished(i) == task[i].st \in {"done", "panicked"}
Busy == Cardinality({i \in DOMAIN task : Running(i)})

\* Pixmap::new is None for a zero dimension
PixmapNew(w, h) == IF w = 0 \/ h = 0 THEN None ELSE Some(<<>>)

\* main.rs:297-320: a free thread takes element i, builds its path,
\* allocates the pixmap and fills it
TaskStart(i) ==
    /\ pc = "for_each"
    /\ task[i].st = "pending"
    /\ Busy < threads
    /\ LET o  == OutputPath(output, filename, task[i].format)
           pm == PixmapNew(width, height)
       IN  task' = [task EXCEPT ![i] =
               IF pm = None
               THEN [@ EXCEPT !.st = "panicked", !.o = o]
               ELSE [@ EXCEPT !.st = "filled", !.o = o,
                       !.canvas = <<<<"fill", BgColor(background, task[i].format)>>>>]]
    /\ UNCHANGED <<pc, config, env, formats, output, background, filename,
                   width, height, threads, files, exit, arg, ret>>

\* main.rs:322
TaskRender(i) ==
    /\ pc = "for_each"
    /\ task[i].st = "filled"
    /\ task' = [task EXCEPT ![i].st = "rendered",
                            ![i].canvas = Append(@, <<"render">>)]
    /\ UNCHANGED <<pc, config, env, formats, output, background, filename,
                   width, height, threads, files, exit, arg, ret>>

Layout(f) == IF f = "Jpeg" THEN "Rgb8" ELSE "Rgba8"

\* main.rs:324-330: image::save_buffer takes the format from the path's
\* extension, then encodes and writes; either may fail
TaskEncode(i) ==
    /\ pc = "for_each"
    /\ task[i].st = "rendered"
    /\ \E written \in BOOLEAN :
        IF written /\ path_extension(task[i].o) # None
        THEN /\ task' = [task EXCEPT ![i].st = "encoded", ![i].res = "Ok"]
             /\ files' = files \cup {[path |-> task[i].o, by |-> i,
                                      layout |-> Layout(task[i].format)]}
        ELSE /\ task' = [task EXCEPT ![i].st = "encoded", ![i].res = "Err"]
             /\ UNCHANGED files
    /\ UNCHANGED <<pc, config, env, formats, output, background, filename,
                   width, height, threads, exit, arg, ret>>

\* main.rs:332-359: o.file_name().expect(..) panics for a path ending in `..`
TaskReport(i) ==
    /\ pc = "for_each"
    /\ task[i].st = "encoded"
    /\ task' = [task EXCEPT ![i] =
           IF file_name(@.o) = None THEN [@ EXCEPT !.st = "panicked"]
           ELSE [@ EXCEPT !.st = "done",
                   !.logged = Append(@, IF task[i].res = "Err" THEN "error"
                                        ELSE "info")]]
    /\ UNCHANGED <<pc, config, env, formats, output, background, filename,
                   width, height, threads, files, exit, arg, ret>>

\* main.rs:360-362: for_each returns when every element was run, and
\* resumes a panic of one of them
MainJoin ==
    /\ pc = "for_each"
    /\ \A i \in DOMAIN task : Finished(i)
    /\ pc' = "exit"
    /\ exit' = IF \E i \in DOMAIN task : task[i].st = "panicked" THEN "Panic"
               ELSE "Ok"
    /\ UNCHANGED <<config, env, formats, output, background, filename, width,
                   height, threads, task, files, arg, ret>>

\* the pool runs the tasks in any order and interleaving
Start == \E i \in DOMAIN task : TaskStart(i)
Render == \E i \in DOMAIN task : TaskRender(i)
Encode == \E i \in DOMAIN task : TaskEncode(i)
Report == \E i \in DOMAIN task : TaskReport(i)

Next ==
    \/ MainFormats
    \/ MainOutput
    \/ MainBackground
    \/ MainFilename
    \/ MainRead
    \/ MainParse
    \/ MainDimensions
    \/ MainFanOut
    \/ Start
    \/ Render
    \/ Encode
    \/ Report
    \/ MainJoin

Spec == Init /\ [][Next]_vars

FannedOut == pc = "for_each" \/ (pc = "exit" /\ task # <<>>)
Tasks == DOMAIN task
Started(i) == task[i].st # "pending"
WroteFile(i) == \E f \in files : f.by = i /\ f.path = task[i].o

(* C1: if the encode step of exactly one task returned an error, every
   other task rendered, encoded and wrote its file, none was skipped, and
   main returned Ok. *)
C1_FailureIsolation ==
    (pc = "exit" /\ task # <<>> /\
     Cardinality({i \in Tasks : task[i].res = "Err"}) = 1)
    => /\ \A i \in Tasks :
              task[i].res # "Err" =>
                  /\ task[i].res = "Ok"
                  /\ task[i].canvas = <<<<"fill", BgColor(background, task[i].format)>>,
                                        <<"render">>>>
                  /\ WroteFile(i)
       /\ exit = "Ok"

(* C2: a resolved width or height of 0 aborts the run before any task is
   started, so Pixmap::new never sees a zero dimension. *)
C2_DegenerateRejected ==
    (pc \in {"par_iter", "for_each", "exit"} /\ env.tree = "ok" /\
     (width = 0 \/ height = 0))
    => /\ \A i \in Tasks : ~Started(i)
       /\ pc = "exit" => (exit = "Err" /\ task = <<>>)

(* C4: one task per format of the list; when main is left after the
   fan-out, every task has logged its success or its failure exactly once. *)
C4_AllAwaited ==
    /\ FannedOut => /\ Len(task) = Len(formats)
                    /\ \A i \in Tasks : task[i].format = formats[i]
    /\ (pc = "exit" /\ task # <<>>) =>
           \A i \in Tasks : /\ Len(task[i].logged) = 1
                            /\ task[i].logged[1] \in {"info", "error"}

\* the pre-fan-out fatal conditions, as far as the run has met them
InvalidInput ==
    config.input.kind = "Path" /\
    ~(config.input.is_file /\ path_extension(config.input.path) = Some(Svg))
MissingFilename == config.input.kind = "Stdin" /\ config.filename = None
\* what parse_color makes of each --background of Backgrounds
Parsed == [b \in Backgrounds \ {None} |-> parse_color(Unwrap(b))]
MalformedColor ==
    config.background # None /\ Parsed[config.background].kind # "Ok"
FatalCondition ==
    \/ InvalidInput
    \/ MissingFilename
    \/ MalformedColor
    \/ env.out_dir = "fail"
    \/ env.data = "fail"
    \/ env.tree = "fail"

C8_BackgroundPolicy ==
    \A i \in Tasks :
        LET expected ==
                IF config.background # None
                THEN Parsed[config.background].color
                ELSE IF task[i].format = "Jpeg" THEN <<255, 255, 255, 255>>
                ELSE <<0, 0, 0, 0>>
        IN  /\ task[i].st \in {"filled"} => task[i].canvas = <<<<"fill", expected>>>>
            /\ task[i].st \in {"rendered", "encoded", "done"} =>
                   task[i].canvas = <<<<"fill", expected>>, <<"render">>>>
            /\ task[i].st = "pending" => task[i].canvas = <<>>

C8_Witness ==
    /\ config.background = None
    /\ \E i, j \in Tasks :
           /\ task[i].format = "Jpeg" /\ task[i].st = "rendered"
           /\ task[i].canvas[1] = <<"fill", <<255, 255, 255, 255>>>>
           /\ task[j].format = "Png" /\ task[j].st = "rendered"
           /\ task[j].canvas[1] = <<"fill", <<0, 0, 0, 0>>>>

(* C10: two distinct started tasks have distinct output paths, and no
   file is written by more than one task. *)
C10_DistinctPaths ==
    /\ \A i, j \in Tasks :
           (i # j /\ Started(i) /\ Started(j)) => task[i].o # task[j].o
    /\ \A f, g \in files : f.path = g.path => f.by = g.by
====
